---- MODULE Spec2Model ----
(***************************************************************************)
(* Model of ServeCmd.Execute (cmd/swagger/commands/serve.go): the serve    *)
(* command of go-swagger.  The main path loads, optionally expands and     *)
(* serialises the specification, binds a tcp4 listener, composes the       *)
(* handler chain and the visit URL, starts the document server on its own  *)
(* goroutine, optionally opens a browser and then waits for the server's   *)
(* error on an unbuffered channel.                                         *)
(***************************************************************************)
EXTENDS Integers, Sequences, FiniteSets, TLC

VARIABLES
    s,                  \* the ServeCmd receiver (flags)
    args,               \* positional arguments of Execute
    pc,                 \* position of the main path in Execute
    specDoc,            \* local specDoc
    err,                \* local err of Execute
    b,                  \* local b: serialised document
    basePath,           \* local basePath
    listenAddr,         \* address string handed to net.Listen
    listener,           \* local listener
    sh,                 \* local sh (display host)
    sp,                 \* local sp (port parsed from listener.Addr())
    visit,              \* local visit
    handler,            \* local handler (chain, outermost layer first)
    reDocUrlPrefix,     \* local reDocUrlPrefix
    swaggerUiUrlPrefix, \* local swaggerUiUrlPrefix
    errFuture,          \* the unbuffered error channel
    srvPc,              \* position of the server goroutine
    docServer,          \* the http.Server of the goroutine
    serveRet,           \* values returned by docServer.Serve
    received,           \* values the main path received from errFuture
    browserCalls,       \* arguments of the webbrowser.Open calls
    browserErr,         \* err of the inner block (line 136)
    logged,             \* lines written by log.Println
    result              \* return value of Execute

vars == <<s, args, pc, specDoc, err, b, basePath, listenAddr, listener, sh, sp,
          visit, handler, reDocUrlPrefix, swaggerUiUrlPrefix, errFuture, srvPc,
          docServer, serveRet, received, browserCalls, browserErr, logged, result>>

----------------------------------------------------------------------------
(* Program constants *)

DefaultSwaggerCloudStaticFileUrLPrefix == "https://unpkg.com/swagger-ui-dist"

DefaultRedocCloudStaticFileUrLPrefix == "https://cdn.jsdelivr.net/npm/redoc/bundles"

----------------------------------------------------------------------------
(* Input domains *)

BasePaths == {"", "/api", "/api/", "v1"}

Flavors == {"redoc", "swagger"}

DocURLs == {"", "http://example.com/doc"}

Ports == {0, 8080}

Hosts == {"0.0.0.0", "", "127.0.0.1", "localhost"}

Paths == {"docs", "ui"}

SourceUrLs == {"", "https://example.com/assets"}

ArgLists == {<<>>, <<"swagger.yml">>}

EphemeralPorts == {49152, 50001}

----------------------------------------------------------------------------
(* Values *)

Nil == [kind |-> "nil", msg |-> ""]

UsageError == [kind |-> "UsageError",
               msg |-> "specify the spec to serve as argument to the serve command"]

LoadErrors == {[kind |-> "LoadError", msg |-> "no such file"]}

ExpansionErrors == {[kind |-> "ExpansionError", msg |-> "unreadable reference"]}

SerializationErrors == {[kind |-> "SerializationError", msg |-> "unsupported value"]}

BindErrors == {[kind |-> "BindError", msg |-> "address already in use"]}

ServeErrors == {[kind |-> "ServeError", msg |-> "accept: use of closed network connection"],
                [kind |-> "ServeError", msg |-> "accept: too many open files"]}

BrowserLaunchErrors == {[kind |-> "BrowserLaunchError", msg |-> "no browser found"]}

NoDoc == [src |-> "", expanded |-> FALSE]

NoListener == [open |-> FALSE, ip |-> "", port |-> 0]

NoHandler == [kind |-> "unset"]

NoChan == [made |-> FALSE, sendq |-> <<>>]

NoServer == [keepAlives |-> FALSE, Handler |-> NoHandler]

----------------------------------------------------------------------------
(* String helpers: Go strings are TLA+ strings *)

CharAt(str, i) == SubSeq(str, i, i)

Digits == "0123456789"

RECURSIVE LastIndex(_, _, _)
LastIndex(str, c, i) ==
    IF i = 0 THEN 0
    ELSE IF CharAt(str, i) = c THEN i
    ELSE LastIndex(str, c, i - 1)

RECURSIVE Contains(_, _, _)
Contains(str, c, i) ==
    IF i > Len(str) THEN FALSE
    ELSE IF CharAt(str, i) = c THEN TRUE
    ELSE Contains(str, c, i + 1)

RECURSIVE Itoa(_)
Itoa(n) ==
    IF n < 10 THEN CharAt(Digits, n + 1)
    ELSE Itoa(n \div 10) \o CharAt(Digits, (n % 10) + 1)

RECURSIVE DigitValue(_, _)
DigitValue(c, d) ==
    IF d > 9 THEN -1
    ELSE IF CharAt(Digits, d + 1) = c THEN d
    ELSE DigitValue(c, d + 1)

RECURSIVE AtoiFrom(_, _, _)
AtoiFrom(str, i, acc) ==
    IF i > Len(str) THEN acc
    ELSE IF DigitValue(CharAt(str, i), 0) < 0 THEN -1
    ELSE AtoiFrom(str, i + 1, acc * 10 + DigitValue(CharAt(str, i), 0))

Atoi(str) == IF str = "" THEN -1 ELSE AtoiFrom(str, 1, 0)

RECURSIVE StringsJoin(_, _)
StringsJoin(elems, sep) ==
    IF elems = <<>> THEN ""
    ELSE IF Len(elems) = 1 THEN elems[1]
    ELSE elems[1] \o sep \o StringsJoin(Tail(elems), sep)

RECURSIVE SplitSlash(_, _, _)
SplitSlash(str, i, cur) ==
    IF i > Len(str) THEN <<cur>>
    ELSE IF CharAt(str, i) = "/" THEN <<cur>> \o SplitSlash(str, i + 1, "")
    ELSE SplitSlash(str, i + 1, cur \o CharAt(str, i))

RECURSIVE CleanSegs(_, _, _)
CleanSegs(segs, out, rooted) ==
    IF segs = <<>> THEN out
    ELSE LET e == Head(segs)
             rest == Tail(segs)
         IN IF e = "" \/ e = "." THEN CleanSegs(rest, out, rooted)
            ELSE IF e = ".."
                 THEN IF out # <<>> /\ out[Len(out)] # ".."
                      THEN CleanSegs(rest, SubSeq(out, 1, Len(out) - 1), rooted)
                      ELSE IF rooted THEN CleanSegs(rest, out, rooted)
                      ELSE CleanSegs(rest, Append(out, ".."), rooted)
            ELSE CleanSegs(rest, Append(out, e), rooted)

PathClean(p) ==
    IF p = "" THEN "."
    ELSE LET rooted == CharAt(p, 1) = "/"
             body == StringsJoin(CleanSegs(SplitSlash(p, 1, ""), <<>>, rooted), "/")
         IN IF rooted THEN "/" \o body
            ELSE IF body = "" THEN "." ELSE body

PathJoin(elems) ==
    LET nonEmpty == SelectSeq(elems, LAMBDA e : e # "")
    IN IF nonEmpty = <<>> THEN "" ELSE PathClean(StringsJoin(nonEmpty, "/"))

JoinHostPort(host, port) ==
    IF Contains(host, ":", 1) \/ Contains(host, "%", 1)
    THEN "[" \o host \o "]:" \o port
    ELSE host \o ":" \o port

SplitHostPort(addr) ==
    LET i == LastIndex(addr, ":", Len(addr))
        h == SubSeq(addr, 1, i - 1)
        p == SubSeq(addr, i + 1, Len(addr))
    IN IF i = 0 \/ Contains(h, ":", 1) \/ p = "" \/ Atoi(p) < 0
       THEN [host |-> "", port |-> -1,
             err |-> [kind |-> "AddrError", msg |-> "missing port in address"]]
       ELSE [host |-> h, port |-> Atoi(p), err |-> Nil]

----------------------------------------------------------------------------
(* Collaborators *)

Expanded(doc) == [doc EXCEPT !.expanded = TRUE]

MarshalIndent(doc) == "json(" \o doc.src \o (IF doc.expanded THEN ",expanded" ELSE "") \o ")"

ResolveIPv4(host) ==
    IF host = "" THEN {"0.0.0.0"}
    ELSE IF host = "localhost" THEN {"127.0.0.1"}
    ELSE {host}

BoundPorts(port) == IF port = 0 THEN EphemeralPorts ELSE {port}

AddrString(l) == JoinHostPort(l.ip, Itoa(l.port))

NotFoundHandler == [kind |-> "NotFound"]

Redoc(opts, next) ==
    [kind |-> "Redoc", pth |-> PathJoin(<<opts.BasePath, opts.Path>>),
     opts |-> opts, next |-> next]

SwaggerUI(opts, next) ==
    [kind |-> "SwaggerUI", pth |-> PathJoin(<<opts.BasePath, opts.Path>>),
     opts |-> opts, next |-> next]

SpecHandler(bp, bytes, next) ==
    [kind |-> "Spec", pth |-> PathJoin(<<IF bp = "" THEN "/" ELSE bp, "swagger.json">>),
     body |-> bytes, next |-> next]

CORS(next) == [kind |-> "CORS", next |-> next]

RECURSIVE Layers(_)
Layers(h) ==
    IF h.kind \in {"unset", "NotFound"} THEN <<h>>
    ELSE <<h>> \o Layers(h.next)

----------------------------------------------------------------------------
(* Initial state: the flags as parsed, nothing executed yet *)

Init ==
    /\ s \in [BasePath : BasePaths, Flavor : Flavors, DocURL : DocURLs,
              NoOpen : BOOLEAN, NoUI : BOOLEAN, Flatten : BOOLEAN,
              Port : Ports, Host : Hosts, Path : Paths, SourceUrL : SourceUrLs]
    /\ args \in ArgLists
    /\ pc = "args"
    /\ specDoc = NoDoc
    /\ err = Nil
    /\ b = ""
    /\ basePath = ""
    /\ listenAddr = ""
    /\ listener = NoListener
    /\ sh = ""
    /\ sp = 0
    /\ visit = ""
    /\ handler = NoHandler
    /\ reDocUrlPrefix = ""
    /\ swaggerUiUrlPrefix = ""
    /\ errFuture = NoChan
    /\ srvPc = "none"
    /\ docServer = NoServer
    /\ serveRet = <<>>
    /\ received = <<>>
    /\ browserCalls = <<>>
    /\ browserErr = Nil
    /\ logged = <<>>
    /\ result = Nil

----------------------------------------------------------------------------
(* Decisions and expressions of Execute *)

DisplayHost_NoSubst(h) == h

DisplayHost(h) == IF h = "0.0.0.0" THEN "localhost" ELSE h

ResolvePrefixes_Swapped(src) ==
    IF src # ""
    THEN [redoc |-> src, swagger |-> src]
    ELSE [redoc |-> DefaultSwaggerCloudStaticFileUrLPrefix,
          swagger |-> DefaultRedocCloudStaticFileUrLPrefix]

ResolvePrefixes(src) ==
    IF src # ""
    THEN [redoc |-> src, swagger |-> src]
    ELSE [redoc |-> DefaultRedocCloudStaticFileUrLPrefix,
          swagger |-> DefaultSwaggerCloudStaticFileUrLPrefix]

UIEnabled_Always(noUI) == TRUE

UIEnabled(noUI) == ~noUI

RegistersSwaggerUI_DocURLOnly(v, flavor) == v # ""

RegistersSwaggerUI(v, flavor) == v # "" \/ flavor = "swagger"

Sprintf_sdS(host, port, p) == "http://" \o host \o ":" \o Itoa(port) \o p

RedocVisitPath_UiPath(bp, uiPath) == PathJoin(<<bp, uiPath>>)

RedocVisitPath(bp, uiPath) == PathJoin(<<bp, "docs">>)

SwaggerVisitPath(bp, uiPath) == PathJoin(<<bp, uiPath>>)

RedocOpts(bp, uiPath, prefix) ==
    [BasePath |-> bp,
     SpecURL |-> PathJoin(<<bp, "swagger.json">>),
     Path |-> uiPath,
     RedocURL |-> StringsJoin(<<prefix, "redoc.standalone.js">>, "/")]

SwaggerUIOpts(bp, uiPath, prefix) ==
    [BasePath |-> bp,
     SpecURL |-> PathJoin(<<bp, "swagger.json">>),
     Path |-> uiPath,
     SwaggerURL |-> StringsJoin(<<prefix, "swagger-ui-bundle.js">>, "/"),
     SwaggerPresetURL |-> StringsJoin(<<prefix, "swagger-ui-standalone-preset.js">>, "/"),
     SwaggerStylesURL |-> StringsJoin(<<prefix, "swagger-ui.css">>, "/"),
     Favicon16 |-> StringsJoin(<<prefix, "favicon-16x16.png">>, "/"),
     Favicon32 |-> StringsJoin(<<prefix, "favicon-32x32.png">>, "/")]

WrapChain_SpecOutermost(bp, bytes, h) == SpecHandler(bp, bytes, CORS(h))

WrapChain(bp, bytes, h) == CORS(SpecHandler(bp, bytes, h))

ShouldOpen_IgnoreNoUI(noOpen, noUI) == ~noOpen

ShouldOpen(noOpen, noUI) == ~noOpen /\ ~noUI

----------------------------------------------------------------------------
(* Main path *)

Return(e) ==
    /\ result' = e
    /\ pc' = "returned"

CheckArgs ==
    /\ pc = "args"
    /\ IF Len(args) = 0
       THEN Return(UsageError)
       ELSE /\ pc' = "load"
            /\ UNCHANGED result
    /\ UNCHANGED <<s, args, specDoc, err, b, basePath, listenAddr, listener, sh, sp,
                   visit, handler, reDocUrlPrefix, swaggerUiUrlPrefix, errFuture,
                   srvPc, docServer, serveRet, received, browserCalls, browserErr,
                   logged>>

LoadSpec ==
    /\ pc = "load"
    /\ \E e \in LoadErrors \cup {Nil} :
         /\ err' = e
         /\ IF e # Nil
            THEN /\ Return(e)
                 /\ UNCHANGED specDoc
            ELSE /\ specDoc' = [src |-> args[1], expanded |-> FALSE]
                 /\ pc' = "flatten"
                 /\ UNCHANGED result
    /\ UNCHANGED <<s, args, b, basePath, listenAddr, listener, sh, sp,
                   visit, handler, reDocUrlPrefix, swaggerUiUrlPrefix, errFuture,
                   srvPc, docServer, serveRet, received, browserCalls, browserErr,
                   logged>>

Flatten ==
    /\ pc = "flatten"
    /\ IF s.Flatten
       THEN \E e \in ExpansionErrors \cup {Nil} :
              /\ err' = e
              /\ IF e # Nil
                 THEN /\ Return(e)
                      /\ specDoc' = NoDoc
                 ELSE /\ specDoc' = Expanded(specDoc)
                      /\ pc' = "marshal"
                      /\ UNCHANGED result
       ELSE /\ pc' = "marshal"
            /\ UNCHANGED <<specDoc, err, result>>
    /\ UNCHANGED <<s, args, b, basePath, listenAddr, listener, sh, sp,
                   visit, handler, reDocUrlPrefix, swaggerUiUrlPrefix, errFuture,
                   srvPc, docServer, serveRet, received, browserCalls, browserErr,
                   logged>>

Marshal ==
    /\ pc = "marshal"
    /\ \E e \in SerializationErrors \cup {Nil} :
         /\ err' = e
         /\ IF e # Nil
            THEN /\ Return(e)
                 /\ UNCHANGED <<b, basePath>>
            ELSE /\ b' = MarshalIndent(specDoc)
                 /\ basePath' = (IF s.BasePath = "" THEN "/" ELSE s.BasePath)
                 /\ pc' = "listen"
                 /\ UNCHANGED result
    /\ UNCHANGED <<s, args, specDoc, listenAddr, listener, sh, sp,
                   visit, handler, reDocUrlPrefix, swaggerUiUrlPrefix, errFuture,
                   srvPc, docServer, serveRet, received, browserCalls, browserErr,
                   logged>>

ListenAfter(bound) ==
    LET r == SplitHostPort(AddrString(bound))
    IN /\ listener' = bound
       /\ err' = r.err
       /\ IF r.err # Nil
          THEN /\ Return(r.err)
               /\ sh' = r.host
               /\ sp' = r.port
          ELSE /\ sh' = DisplayHost(r.host)
               /\ sp' = r.port
               /\ pc' = "plan"
               /\ UNCHANGED result

Listen_IgnoreBindError ==
    /\ pc = "listen"
    /\ listenAddr' = JoinHostPort(s.Host, Itoa(s.Port))
    /\ \/ \E e \in BindErrors :
            /\ err' = e
            /\ pc' = "plan"
            /\ UNCHANGED <<listener, sh, sp, result>>
       \/ \E ip \in ResolveIPv4(s.Host), port \in BoundPorts(s.Port) :
            ListenAfter([open |-> TRUE, ip |-> ip, port |-> port])
    /\ UNCHANGED <<s, args, specDoc, b, basePath,
                   visit, handler, reDocUrlPrefix, swaggerUiUrlPrefix, errFuture,
                   srvPc, docServer, serveRet, received, browserCalls, browserErr,
                   logged>>

Listen ==
    /\ pc = "listen"
    /\ listenAddr' = JoinHostPort(s.Host, Itoa(s.Port))
    /\ \/ \E e \in BindErrors :
            /\ err' = e
            /\ Return(e)
            /\ UNCHANGED <<listener, sh, sp>>
       \/ \E ip \in ResolveIPv4(s.Host), port \in BoundPorts(s.Port) :
            ListenAfter([open |-> TRUE, ip |-> ip, port |-> port])
    /\ UNCHANGED <<s, args, specDoc, b, basePath,
                   visit, handler, reDocUrlPrefix, swaggerUiUrlPrefix, errFuture,
                   srvPc, docServer, serveRet, received, browserCalls, browserErr,
                   logged>>

InitPlan ==
    /\ pc = "plan"
    /\ visit' = s.DocURL
    /\ handler' = NotFoundHandler
    /\ reDocUrlPrefix' = ResolvePrefixes(s.SourceUrL).redoc
    /\ swaggerUiUrlPrefix' = ResolvePrefixes(s.SourceUrL).swagger
    /\ pc' = "compose"
    /\ UNCHANGED <<s, args, specDoc, err, b, basePath, listenAddr, listener, sh, sp,
                   errFuture, srvPc, docServer, serveRet, received, browserCalls,
                   browserErr, logged, result>>

ComposeUI ==
    /\ pc = "compose"
    /\ IF UIEnabled(s.NoUI)
       THEN IF s.Flavor = "redoc"
            THEN /\ handler' = Redoc(RedocOpts(basePath, s.Path, reDocUrlPrefix), handler)
                 /\ visit' = Sprintf_sdS(sh, sp, RedocVisitPath(basePath, s.Path))
            ELSE IF RegistersSwaggerUI(visit, s.Flavor)
            THEN /\ handler' = SwaggerUI(SwaggerUIOpts(basePath, s.Path, swaggerUiUrlPrefix),
                                         handler)
                 /\ visit' = Sprintf_sdS(sh, sp, SwaggerVisitPath(basePath, s.Path))
            ELSE UNCHANGED <<handler, visit>>
       ELSE UNCHANGED <<handler, visit>>
    /\ pc' = "wrap"
    /\ UNCHANGED <<s, args, specDoc, err, b, basePath, listenAddr, listener, sh, sp,
                   reDocUrlPrefix, swaggerUiUrlPrefix, errFuture, srvPc, docServer,
                   serveRet, received, browserCalls, browserErr, logged, result>>

WrapHandler ==
    /\ pc = "wrap"
    /\ handler' = WrapChain(basePath, b, handler)
    /\ errFuture' = [made |-> TRUE, sendq |-> <<>>]
    /\ pc' = "spawn"
    /\ UNCHANGED <<s, args, specDoc, err, b, basePath, listenAddr, listener, sh, sp,
                   visit, reDocUrlPrefix, swaggerUiUrlPrefix, srvPc, docServer,
                   serveRet, received, browserCalls, browserErr, logged, result>>

Spawn ==
    /\ pc = "spawn"
    /\ srvPc' = "setup"
    /\ pc' = "open"
    /\ UNCHANGED <<s, args, specDoc, err, b, basePath, listenAddr, listener, sh, sp,
                   visit, handler, reDocUrlPrefix, swaggerUiUrlPrefix, errFuture,
                   docServer, serveRet, received, browserCalls, browserErr, logged,
                   result>>

OpenBrowser ==
    /\ pc = "open"
    /\ IF ShouldOpen(s.NoOpen, s.NoUI)
       THEN /\ browserCalls' = Append(browserCalls, visit)
            /\ \E e \in BrowserLaunchErrors \cup {Nil} :
                 /\ browserErr' = e
                 /\ IF e # Nil
                    THEN Return(e)
                    ELSE /\ pc' = "log"
                         /\ UNCHANGED result
       ELSE /\ pc' = "log"
            /\ UNCHANGED <<browserCalls, browserErr, result>>
    /\ UNCHANGED <<s, args, specDoc, err, b, basePath, listenAddr, listener, sh, sp,
                   visit, handler, reDocUrlPrefix, swaggerUiUrlPrefix, errFuture,
                   srvPc, docServer, serveRet, received, logged>>

LogVisit ==
    /\ pc = "log"
    /\ logged' = Append(logged, "serving docs at " \o visit)
    /\ pc' = "recv"
    /\ UNCHANGED <<s, args, specDoc, err, b, basePath, listenAddr, listener, sh, sp,
                   visit, handler, reDocUrlPrefix, swaggerUiUrlPrefix, errFuture,
                   srvPc, docServer, serveRet, received, browserCalls, browserErr,
                   result>>

Receive_Discard ==
    /\ pc = "recv"
    /\ errFuture.sendq # <<>>
    /\ received' = Append(received, Head(errFuture.sendq))
    /\ errFuture' = [errFuture EXCEPT !.sendq = Tail(@)]
    /\ srvPc' = "done"
    /\ Return(Nil)
    /\ UNCHANGED <<s, args, specDoc, err, b, basePath, listenAddr, listener, sh, sp,
                   visit, handler, reDocUrlPrefix, swaggerUiUrlPrefix, docServer,
                   serveRet, browserCalls, browserErr, logged>>

Receive ==
    /\ pc = "recv"
    /\ errFuture.sendq # <<>>
    /\ received' = Append(received, Head(errFuture.sendq))
    /\ errFuture' = [errFuture EXCEPT !.sendq = Tail(@)]
    /\ srvPc' = "done"
    /\ Return(Head(errFuture.sendq))
    /\ UNCHANGED <<s, args, specDoc, err, b, basePath, listenAddr, listener, sh, sp,
                   visit, handler, reDocUrlPrefix, swaggerUiUrlPrefix, docServer,
                   serveRet, browserCalls, browserErr, logged>>

----------------------------------------------------------------------------
(* Server path: the goroutine of lines 127-133 *)

SrvSetup ==
    /\ srvPc = "setup"
    /\ docServer' = [keepAlives |-> TRUE, Handler |-> handler]
    /\ srvPc' = "serving"
    /\ UNCHANGED <<s, args, pc, specDoc, err, b, basePath, listenAddr, listener, sh,
                   sp, visit, handler, reDocUrlPrefix, swaggerUiUrlPrefix, errFuture,
                   serveRet, received, browserCalls, browserErr, logged, result>>

SrvServeReturns ==
    /\ srvPc = "serving"
    /\ \E e \in ServeErrors : serveRet' = Append(serveRet, e)
    /\ srvPc' = "send"
    /\ UNCHANGED <<s, args, pc, specDoc, err, b, basePath, listenAddr, listener, sh,
                   sp, visit, handler, reDocUrlPrefix, swaggerUiUrlPrefix, errFuture,
                   docServer, received, browserCalls, browserErr, logged, result>>

SrvSend_Repeat ==
    /\ srvPc = "send"
    /\ errFuture' = [errFuture EXCEPT !.sendq = Append(@, serveRet[Len(serveRet)])]
    /\ srvPc' = IF Len(errFuture.sendq) = 0 THEN "send" ELSE "blocked"
    /\ UNCHANGED <<s, args, pc, specDoc, err, b, basePath, listenAddr, listener, sh,
                   sp, visit, handler, reDocUrlPrefix, swaggerUiUrlPrefix, docServer,
                   serveRet, received, browserCalls, browserErr, logged, result>>

SrvSend ==
    /\ srvPc = "send"
    /\ errFuture' = [errFuture EXCEPT !.sendq = Append(@, serveRet[Len(serveRet)])]
    /\ srvPc' = "blocked"
    /\ UNCHANGED <<s, args, pc, specDoc, err, b, basePath, listenAddr, listener, sh,
                   sp, visit, handler, reDocUrlPrefix, swaggerUiUrlPrefix, docServer,
                   serveRet, received, browserCalls, browserErr, logged, result>>

----------------------------------------------------------------------------

Next ==
    \/ CheckArgs
    \/ LoadSpec
    \/ Flatten
    \/ Marshal
    \/ Listen
    \/ InitPlan
    \/ ComposeUI
    \/ WrapHandler
    \/ Spawn
    \/ OpenBrowser
    \/ LogVisit
    \/ Receive
    \/ SrvSetup
    \/ SrvServeReturns
    \/ SrvSend

Spec == Init /\ [][Next]_vars

----------------------------------------------------------------------------
(* Derived views of the state *)

Composed == pc = "wrap" \/ errFuture.made

Wrapped == errFuture.made

Started == srvPc # "none"

Bound == listener.open /\ err = Nil

EffectiveBasePath == IF s.BasePath = "" THEN "/" ELSE s.BasePath

UILayers == SelectSeq(Layers(handler), LAMBDA h : h.kind \in {"Redoc", "SwaggerUI"})

SpecLayers == SelectSeq(Layers(handler), LAMBDA h : h.kind = "Spec")

CORSLayers == SelectSeq(Layers(handler), LAMBDA h : h.kind = "CORS")

LastSegment(str) == SubSeq(str, LastIndex(str, "/", Len(str)) + 1, Len(str))

Sent == received \o errFuture.sendq

ExpectedPrefix(kind) ==
    IF s.SourceUrL # "" THEN s.SourceUrL
    ELSE IF kind = "Redoc" THEN "https://cdn.jsdelivr.net/npm/redoc/bundles"
    ELSE "https://unpkg.com/swagger-ui-dist"

----------------------------------------------------------------------------
(* C1: once the handler chain is composed, for every configuration, it has *)
(* exactly one document route, at join(basePath, "swagger.json"), serving  *)
(* the bytes of the serialisation step, and the cross-origin layer is the  *)
(* single outermost layer; the server serves that chain.                   *)
C1_DocRouteAndCORS ==
    Wrapped =>
        /\ Head(Layers(handler)).kind = "CORS"
        /\ Len(CORSLayers) = 1
        /\ Len(SpecLayers) = 1
        /\ SpecLayers[1].pth = PathJoin(<<EffectiveBasePath, "swagger.json">>)
        /\ SpecLayers[1].body = b
        /\ b = MarshalIndent([src |-> args[1], expanded |-> s.Flatten])
        /\ handler.next.kind = "Spec"
        /\ (srvPc \in {"serving", "send", "blocked", "done"} => docServer.Handler = handler)

C1_Witness ==
    /\ Wrapped
    /\ s.NoUI
    /\ s.Flatten
    /\ s.BasePath = "/api/"
    /\ srvPc = "serving"

(* C2: with noUI set, whatever the flavor, doc URL and UI path, the chain  *)
(* has no UI route and visit is the explicit doc URL unchanged.            *)
C2_NoUINoRoute ==
    (s.NoUI /\ Composed) =>
        /\ UILayers = <<>>
        /\ visit = s.DocURL

C2_Witness ==
    /\ s.NoUI
    /\ Wrapped
    /\ s.Flavor = "swagger"
    /\ s.DocURL # ""
    /\ visit = s.DocURL

(* C3: with the UI enabled and flavor redoc, visit is                      *)
(* http://displayHost:boundPort + join(basePath, "docs"), with the port    *)
(* the listener bound; its last segment is "docs" for every UI path and    *)
(* doc URL, while the redoc route is registered at join(basePath, uiPath). *)
C3_RedocVisit ==
    (~s.NoUI /\ s.Flavor = "redoc" /\ Composed) =>
        /\ visit = "http://" \o sh \o ":" \o Itoa(listener.port)
                     \o PathJoin(<<EffectiveBasePath, "docs">>)
        /\ LastSegment(visit) = "docs"
        /\ (s.Port = 0 => listener.port \in EphemeralPorts)
        /\ Len(UILayers) = 1
        /\ UILayers[1].kind = "Redoc"
        /\ UILayers[1].pth = PathJoin(<<EffectiveBasePath, s.Path>>)
        /\ UILayers[1].opts.SpecURL = PathJoin(<<EffectiveBasePath, "swagger.json">>)

C3_Witness ==
    /\ ~s.NoUI
    /\ s.Flavor = "redoc"
    /\ Composed
    /\ s.Path = "ui"
    /\ s.Port = 0
    /\ s.DocURL # ""
    /\ LastSegment(visit) = "docs"

(* C4: with the UI enabled and flavor swagger, with or without a doc URL,  *)
(* a swagger UI route is registered at join(basePath, uiPath), pointed at  *)
(* join(basePath, "swagger.json"), and visit is                            *)
(* http://displayHost:boundPort + join(basePath, uiPath).                  *)
C4_SwaggerRouteAndVisit ==
    (~s.NoUI /\ s.Flavor = "swagger" /\ Composed) =>
        /\ Len(UILayers) = 1
        /\ UILayers[1].kind = "SwaggerUI"
        /\ UILayers[1].pth = PathJoin(<<EffectiveBasePath, s.Path>>)
        /\ UILayers[1].opts.SpecURL = PathJoin(<<EffectiveBasePath, "swagger.json">>)
        /\ visit = "http://" \o sh \o ":" \o Itoa(listener.port)
                     \o PathJoin(<<EffectiveBasePath, s.Path>>)
        /\ LastSegment(visit) = s.Path

C4_Witness ==
    /\ ~s.NoUI
    /\ s.Flavor = "swagger"
    /\ Composed
    /\ s.DocURL = ""
    /\ s.Path = "ui"
    /\ Len(UILayers) = 1

(* C5 as stated: the display host is "localhost" when the bind host is     *)
(* "0.0.0.0" and the literal bind host otherwise, and the listener is      *)
(* given the requested host and port.                                      *)
C5_Original ==
    Bound =>
        /\ sh = (IF s.Host = "0.0.0.0" THEN "localhost" ELSE s.Host)
        /\ listenAddr = s.Host \o ":" \o Itoa(s.Port)

(* C5 amended: the display host is "localhost" when the host of the        *)
(* listener's bound address is "0.0.0.0" and that bound host otherwise     *)
(* (the literal bind host when it is an IPv4 literal other than the        *)
(* wildcard); the listener is given the requested host and port.           *)
C5_DisplayHost ==
    /\ Bound =>
        /\ sh = (IF listener.ip = "0.0.0.0" THEN "localhost" ELSE listener.ip)
        /\ (s.Host = "0.0.0.0" => sh = "localhost")
        /\ (ResolveIPv4(s.Host) = {s.Host} /\ s.Host # "0.0.0.0" => sh = s.Host)
    /\ (listener.open \/ err.kind = "BindError") =>
        listenAddr = s.Host \o ":" \o Itoa(s.Port)

C5_Witness ==
    /\ Bound
    /\ s.Host = "0.0.0.0"
    /\ sh = "localhost"
    /\ listenAddr = "0.0.0.0:8080"

(* C6: every asset URL of the registered UI is prefix/filename, the prefix *)
(* being the source override verbatim when it is non-empty and otherwise   *)
(* the default prefix of that UI's own flavor.                             *)
C6_AssetURLs ==
    (Composed /\ UILayers # <<>>) =>
        LET ui == UILayers[1]
            prefix == ExpectedPrefix(ui.kind)
        IN IF ui.kind = "Redoc"
           THEN ui.opts.RedocURL = prefix \o "/redoc.standalone.js"
           ELSE /\ ui.opts.SwaggerURL = prefix \o "/swagger-ui-bundle.js"
                /\ ui.opts.SwaggerPresetURL = prefix \o "/swagger-ui-standalone-preset.js"
                /\ ui.opts.SwaggerStylesURL = prefix \o "/swagger-ui.css"
                /\ ui.opts.Favicon16 = prefix \o "/favicon-16x16.png"
                /\ ui.opts.Favicon32 = prefix \o "/favicon-32x32.png"

C6_Witness ==
    /\ Composed
    /\ UILayers # <<>>
    /\ UILayers[1].kind = "SwaggerUI"
    /\ s.SourceUrL = ""
    /\ UILayers[1].opts.SwaggerStylesURL = "https://unpkg.com/swagger-ui-dist/swagger-ui.css"

(* C7: a missing argument, a load, expansion or serialisation error        *)
(* returns that error before any listener is created, and a bind error     *)
(* returns before the server path starts and before any browser launch;    *)
(* no later step is executed in any of these cases.                        *)
C7_FatalBeforeLaterSteps ==
    /\ (Len(args) = 0 /\ pc # "args") => (pc = "returned" /\ result = UsageError)
    /\ err.kind = "ExpansionError" => s.Flatten
    /\ (result = UsageError
        \/ err.kind \in {"LoadError", "ExpansionError", "SerializationError"}) =>
            /\ pc = "returned"
            /\ result = (IF Len(args) = 0 THEN UsageError ELSE err)
            /\ listenAddr = ""
            /\ listener = NoListener
    /\ (result = UsageError
        \/ err.kind \in {"LoadError", "ExpansionError", "SerializationError",
                         "BindError"}) =>
            /\ pc = "returned"
            /\ result = (IF Len(args) = 0 THEN UsageError ELSE err)
            /\ ~listener.open
            /\ handler = NoHandler
            /\ ~errFuture.made
            /\ srvPc = "none"
            /\ docServer = NoServer
            /\ browserCalls = <<>>
            /\ logged = <<>>

C7_Witness ==
    /\ pc = "returned"
    /\ err.kind = "BindError"
    /\ result = err
    /\ listenAddr # ""

(* C8 as stated: in every run that started the server path, when the       *)
(* command has returned, exactly one serve error was sent and the caller   *)
(* received it exactly once, also when the browser launch failed.          *)
C8_Original ==
    (Started /\ pc = "returned") =>
        /\ Len(Sent) = 1
        /\ Len(received) = 1

(* C8 amended: at most one serve error is produced, sent and received per  *)
(* run; when the command returns without a browser-launch failure exactly  *)
(* one was produced and the caller received it once; when the launch       *)
(* failed the caller never receives it.                                    *)
C8_AtMostOnce ==
    /\ Len(serveRet) <= 1
    /\ Len(Sent) <= 1
    /\ Len(received) <= 1
    /\ (Started /\ pc = "returned" /\ browserErr = Nil) =>
            /\ Len(received) = 1
            /\ received = serveRet
            /\ errFuture.sendq = <<>>
    /\ browserErr # Nil => received = <<>>

C8_Witness ==
    /\ Started
    /\ pc = "returned"
    /\ browserCalls # <<>>
    /\ browserErr = Nil
    /\ Len(received) = 1

(* C9: the browser launcher is invoked at most once, only when noOpen and  *)
(* noUI are both false and only after the server path was started; when    *)
(* the launch fails the command returns the launch error at once, without  *)
(* receiving the server's outcome, whatever the server path is doing.      *)
C9_BrowserLaunch ==
    /\ Len(browserCalls) <= 1
    /\ browserCalls # <<>> =>
            /\ ~s.NoOpen
            /\ ~s.NoUI
            /\ Started
            /\ browserCalls[1] = visit
    /\ browserErr # Nil =>
            /\ browserCalls # <<>>
            /\ pc = "returned"
            /\ result = browserErr
            /\ received = <<>>
            /\ logged = <<>>

C9_Witness ==
    /\ browserErr # Nil
    /\ pc = "returned"
    /\ srvPc = "serving"

(* C10 as stated: once the server path is started the command returns      *)
(* only with a serve-time error.                                           *)
C10_Original ==
    (Started /\ pc = "returned") => result \in ServeErrors

(* C10 amended: once the server path is started the main path only moves   *)
(* through the browser step, the log line and the wait, and the command    *)
(* returns either the serve error it received or the launch error of a     *)
(* failed browser launch.                                                  *)
C10_ReturnAfterStart ==
    /\ Started => pc \in {"open", "log", "recv", "returned"}
    /\ (Started /\ pc = "returned") =>
            \/ /\ result \in ServeErrors
               /\ received = <<result>>
               /\ serveRet = <<result>>
               /\ browserErr = Nil
               /\ logged = <<"serving docs at " \o visit>>
            \/ /\ result \in BrowserLaunchErrors
               /\ result = browserErr
               /\ ShouldOpen(s.NoOpen, s.NoUI)
               /\ received = <<>>

C10_Witness ==
    /\ Started
    /\ pc = "returned"
    /\ result \in ServeErrors
    /\ s.NoOpen

====
